---------------------------- MODULE Spec2Model ----------------------------
(***************************************************************************)
(* A model of lissajous.go: the rasterizer `paint`, the frame loop of      *)
(* `lissajous` and the glue in `main`.                                     *)
(*                                                                         *)
(* Numbers.  The program computes in float64.  The model computes in exact *)
(* fixed-point arithmetic: a coordinate is an integer number of 1/One      *)
(* (hundredths), an angle (t, res, the phases, the sweep limit) an integer *)
(* number of Pi/6, so that 2*Pi is Len(SinTable) angle units, and the      *)
(* frequencies are integers.  math.Sin is the table of the sine at the     *)
(* multiples of Pi/6, in hundredths.  The rounding error of float64        *)
(* additions is not represented.                                           *)
(***************************************************************************)
EXTENDS Integers, Sequences, FiniteSets, TLC

VARIABLES
    pc,        \* where the program is: init, main, loop, sweep, encode, done
    flags,     \* the configuration flags as init() parsed them (never written later)
    xfreq,     \* the four flags that lissajous advances in place
    yfreq,
    xphase,
    yphase,
    out,       \* the io.Writer main hands to lissajous: "file" or "nil"
    reported,  \* the messages main has printed
    i,         \* the frame loop's index
    t,         \* the sweep's variable
    lisa,      \* the intensity grid of the frame being built
    anim,      \* the gif.GIF being filled
    ret,       \* what lissajous returned: "none" (not yet), "nil", "error"
    ts,        \* history: the values of t sampled so far in the current frame
    maxVal,    \* the cap handed to paint
    calls      \* history: the paint calls made directly on `lisa` (SpecPaint)

vars == <<pc, flags, xfreq, yfreq, xphase, yphase, out, reported, i, t, lisa,
          anim, ret, ts, maxVal, calls>>

---------------------------------------------------------------------------
(* Bounds of the model *)

MaxFrames == 2
MaxSize == 3
MaxCycles == 1
MaxSamples == 3
MaxPaints == 2

(* The fixed-point unit: 1.0 is One hundredths. *)
One == 100

(* The literal 15 handed to paint by lissajous. *)
MaxIntensity == 15

---------------------------------------------------------------------------
(* The palette: 16 colours, each <<R, G, B, A>>. *)

palette ==
    << <<44, 47, 52, 255>>,    <<59, 62, 66, 255>>,    <<74, 77, 80, 255>>,
       <<89, 92, 94, 255>>,    <<104, 107, 108, 255>>, <<119, 122, 122, 255>>,
       <<134, 137, 136, 255>>, <<149, 152, 150, 255>>, <<164, 167, 148, 255>>,
       <<179, 182, 162, 255>>, <<194, 197, 176, 255>>, <<209, 212, 190, 255>>,
       <<224, 227, 204, 255>>, <<255, 242, 218, 255>>, <<255, 241, 232, 255>>,
       <<255, 255, 255, 255>> >>

(* palette[k] of the Go source, whose slices count from 0. *)
PaletteAt(k) == palette[k + 1]

(* color.Palette.Index as img.Set uses it: the index of the first palette
   entry equal to c (every colour set is a palette colour). *)
PaletteIndex(c) ==
    (CHOOSE k \in 1..Len(palette) :
        /\ palette[k] = c
        /\ \A j \in 1..(k - 1) : palette[j] # c) - 1

---------------------------------------------------------------------------
(* Numeric helpers *)

(* A min that does not cap. *)
minNoCap(a, b) == a

min(a, b) == IF a < b THEN a ELSE b

(* A conversion that rounds down instead of toward zero. *)
ToIntFloor(v) == v \div One

(* Go's int(f) of a float64: truncation toward zero.  v is in hundredths. *)
ToInt(v) == IF v >= 0 THEN v \div One ELSE -((-v) \div One)

(* math.Sin at the multiples of Pi/6, in hundredths. *)
SinTable == <<0, 50, 87, 100, 87, 50, 0, -50, -87, -100, -87, -50>>

TwoPi == Len(SinTable)

Sin(a) == SinTable[(a % TwoPi) + 1]

(* The offsets paint ranges over, in hundredths. *)
Offsets == <<-55, 0, 55>>


---------------------------------------------------------------------------
(* paint *)

(* make([][]int, n) with every row make([]int, n), its cells set to v
   (Go's make gives v = 0). *)
MakeCanvas(n, v) == [r \in 0..(n - 1) |-> [c \in 0..(n - 1) |-> v]]

(* len(canvas) *)
CanvasLen(canvas) == Cardinality(DOMAIN canvas)

(* The cell one tap of paint aims at: x and y are already scaled. *)
TapCell(x, y, scale, xoffset, yoffset) ==
    <<scale + ToInt(x + xoffset), scale + ToInt(y + yoffset)>>

(* The 9 cells paint(x, y, scale, ...) aims at, in the order of its two
   loops; x and y are the point's coordinates in hundredths. *)
Taps(x, y, scale) ==
    LET sx == x * scale
        sy == y * scale
    IN  [k \in 1..(Len(Offsets) * Len(Offsets)) |->
            TapCell(sx, sy, scale,
                    Offsets[((k - 1) \div Len(Offsets)) + 1],
                    Offsets[((k - 1) % Len(Offsets)) + 1])]

(* Whether a tap is skipped by one of the two `continue`s; n is
   len(canvas), which paint never changes. *)
Skipped(cell, n) ==
    \/ cell[1] >= n \/ cell[1] < 0
    \/ cell[2] >= n \/ cell[2] < 0

(* One pass of the inner loop's body. *)
PaintTap(cell, canvas, n, cap) ==
    IF Skipped(cell, n)
    THEN canvas
    ELSE [canvas EXCEPT ![cell[1]][cell[2]] = min(@ + 1, cap)]

(* The passes of the loops from the k-th tap on. *)
RECURSIVE PaintTaps(_, _, _, _, _)
PaintTaps(taps, k, canvas, n, cap) ==
    IF k > Len(taps)
    THEN canvas
    ELSE PaintTaps(taps, k + 1, PaintTap(taps[k], canvas, n, cap), n, cap)

(* paint(x, y, scale, canvas, maxVal): the canvas it leaves. *)
Paint(x, y, scale, canvas, cap) ==
    PaintTaps(Taps(x, y, scale), 1, canvas, CanvasLen(canvas), cap)

---------------------------------------------------------------------------
(* lissajous *)

(* cycles*2*math.Pi *)
Limit == flags.cycles * TwoPi

(* An off-by-one loop condition. *)
LoopCondLeq == i <= flags.nframes

(* i < nframes, the frame loop's condition. *)
LoopCond == i < flags.nframes

(* An off-by-one sweep condition. *)
SweepCondLeq == t <= Limit

(* t < cycles*2*math.Pi, the sweep's condition. *)
SweepCond == t < Limit

(* A sweep that steps the wrong way. *)
NextTMinus == t - flags.res

(* t += res, the sweep's post statement. *)
NextT == t + flags.res

(* An advance applied twice. *)
AdvanceParamTwice(v, inc) == v + inc + inc

(* v += inc, the advance of one of the four parameters. *)
AdvanceParam(v, inc) == v + inc

(* A store that forgets the delay. *)
StoreFrameNoDelay(g, d, img) == [g EXCEPT !.Image = Append(@, img)]

(* anim.Delay = append(anim.Delay, delay) and
   anim.Image = append(anim.Image, img). *)
StoreFrame(g, d, img) ==
    [g EXCEPT !.Delay = Append(@, d), !.Image = Append(@, img)]

(* The point the sweep computes at the current t. *)
SampleX == Sin(t * xfreq + xphase)
SampleY == Sin(t * yfreq + yphase)

(* image.Rect(0, 0, 2*size+1, 2*size-1): the points of the frame. *)
Rect(size) == (0..(2 * size)) \X (0..(2 * size - 2))

(* A conversion that swaps the two coordinates. *)
RenderFrameSwapped(size, canvas) ==
    [p \in Rect(size) |->
        IF p[2] \in DOMAIN canvas /\ p[1] \in DOMAIN canvas[p[2]]
        THEN PaletteIndex(PaletteAt(canvas[p[2]][p[1]]))
        ELSE 0]

(* image.NewPaletted followed by the img.Set loop over the grid: Set does
   nothing for a point outside the rectangle, and a pixel never set keeps
   index 0. *)
RenderFrame(size, canvas) ==
    [p \in Rect(size) |->
        IF p[1] \in DOMAIN canvas /\ p[2] \in DOMAIN canvas[p[1]]
        THEN PaletteIndex(PaletteAt(canvas[p[1]][p[2]]))
        ELSE 0]

(* gif.EncodeAll(out, &anim): it refuses an animation without images or
   with mismatched Image and Delay, and fails when the writer cannot be
   written to (a nil *os.File). *)
EncodeAll(w, g) ==
    IF Len(g.Image) = 0 THEN "error"
    ELSE IF Len(g.Image) # Len(g.Delay) THEN "error"
    ELSE IF w = "nil" THEN "error"
    ELSE "nil"

(* for i := 0; i < nframes; i++ { : a frame starts, with a fresh grid. *)
FrameStart ==
    /\ pc = "loop"
    /\ LoopCond
    /\ lisa' = MakeCanvas(2 * flags.size, 0)
    /\ t' = 0
    /\ ts' = <<>>
    /\ pc' = "sweep"
    /\ UNCHANGED <<flags, xfreq, yfreq, xphase, yphase, out, reported, i,
                   anim, ret, maxVal, calls>>

(* One pass of the sweep's body: a sample is painted and t advances.  A
   sweep whose resolution is not positive is followed for MaxSamples
   samples only. *)
SweepStep ==
    /\ pc = "sweep"
    /\ SweepCond
    /\ flags.res > 0 \/ Len(ts) < MaxSamples
    /\ lisa' = Paint(SampleX, SampleY, flags.size - 2, lisa, MaxIntensity)
    /\ ts' = Append(ts, t)
    /\ t' = NextT
    /\ UNCHANGED <<pc, flags, xfreq, yfreq, xphase, yphase, out, reported, i,
                   anim, ret, maxVal, calls>>

(* The sweep has ended: the grid becomes a frame, the four parameters
   advance, the delay and the frame are stored, and i++. *)
FinishFrame ==
    /\ pc = "sweep"
    /\ ~SweepCond
    /\ xphase' = AdvanceParam(xphase, flags.xphaseInc)
    /\ yphase' = AdvanceParam(yphase, flags.yphaseInc)
    /\ xfreq' = AdvanceParam(xfreq, flags.xfreqInc)
    /\ yfreq' = AdvanceParam(yfreq, flags.yfreqInc)
    /\ anim' = StoreFrame(anim, flags.delay, RenderFrame(flags.size, lisa))
    /\ i' = i + 1
    /\ pc' = "loop"
    /\ UNCHANGED <<flags, out, reported, t, lisa, ret, ts, maxVal, calls>>

(* The loop's condition fails: lissajous goes on to gif.EncodeAll. *)
LoopExit ==
    /\ pc = "loop"
    /\ ~LoopCond
    /\ pc' = "encode"
    /\ UNCHANGED <<flags, xfreq, yfreq, xphase, yphase, out, reported, i, t,
                   lisa, anim, ret, ts, maxVal, calls>>

(* return gif.EncodeAll(out, &anim), and main's report of its error. *)
Encode ==
    /\ pc = "encode"
    /\ ret' = EncodeAll(out, anim)
    /\ reported' = IF ret' = "error" THEN reported \cup {"encode"} ELSE reported
    /\ pc' = "done"
    /\ UNCHANGED <<flags, xfreq, yfreq, xphase, yphase, out, i, t, lisa, anim,
                   ts, maxVal, calls>>

---------------------------------------------------------------------------
(* main *)

(* What main does after os.Create returned: an error is printed, and in
   either case lissajous(f) is called. *)
AfterCreate(ok) ==
    /\ out' = IF ok THEN "file" ELSE "nil"
    /\ reported' = IF ok THEN reported ELSE reported \cup {"open"}
    /\ anim' = [LoopCount |-> flags.nframes, Image |-> <<>>, Delay |-> <<>>]
    /\ i' = 0
    /\ pc' = "loop"

(* f, err := os.Create(outFile), which succeeds or fails. *)
Main ==
    /\ pc = "main"
    /\ \E ok \in BOOLEAN : AfterCreate(ok)
    /\ UNCHANGED <<flags, xfreq, yfreq, xphase, yphase, t, lisa, ret, ts,
                   maxVal, calls>>

---------------------------------------------------------------------------
(* The configurations checked. *)

Increments == {0, 1}
Resolutions == {-5, 0, 4, 5}

Flags ==
    [nframes : -1..MaxFrames, size : 1..MaxSize, delay : {8},
     cycles : 0..MaxCycles, res : Resolutions,
     xfreq : {1}, yfreq : {2}, xphase : {0}, yphase : {3},
     xfreqInc : Increments, yfreqInc : Increments,
     xphaseInc : Increments, yphaseInc : Increments]

(* The package variables before init() runs: every flag is zero. *)
ZeroFlags == [f \in DOMAIN (CHOOSE r \in Flags : TRUE) |-> 0]

(* The state when the program starts. *)
Init ==
    /\ pc = "init"
    /\ flags = ZeroFlags
    /\ xfreq = 0
    /\ yfreq = 0
    /\ xphase = 0
    /\ yphase = 0
    /\ out = "none"
    /\ reported = {}
    /\ i = 0
    /\ t = 0
    /\ lisa = MakeCanvas(0, 0)
    /\ anim = [LoopCount |-> 0, Image |-> <<>>, Delay |-> <<>>]
    /\ ret = "none"
    /\ ts = <<>>
    /\ maxVal = MaxIntensity
    /\ calls = <<>>

(* init(): flag.Parse() sets the flags from the command line. *)
ParseFlags ==
    /\ pc = "init"
    /\ flags' \in Flags
    /\ xfreq' = flags'.xfreq
    /\ yfreq' = flags'.yfreq
    /\ xphase' = flags'.xphase
    /\ yphase' = flags'.yphase
    /\ pc' = "main"
    /\ UNCHANGED <<out, reported, i, t, lisa, anim, ret, ts, maxVal, calls>>

Next ==
    \/ ParseFlags
    \/ Main
    \/ FrameStart
    \/ SweepStep
    \/ FinishFrame
    \/ LoopExit
    \/ Encode

Spec == Init /\ [][Next]_vars

(* The program is one thread that runs whenever it can take a step. *)
FairSpec == Spec /\ WF_vars(Next)

---------------------------------------------------------------------------
(* paint on its own: any sequence of calls on one canvas. *)

PaintSizes == {3, 10}
PaintCaps == {3, MaxIntensity}
Coords == {-3 * One, -One, 0, One, 3 * One}

(* A canvas of 2*size rows whose cells all hold `start`, a value within
   [0, maxVal]; no call made yet. *)
InitPaint ==
    /\ pc = "paint"
    /\ maxVal \in PaintCaps
    /\ flags \in [size : PaintSizes, start : {0, maxVal}]
    /\ lisa = MakeCanvas(2 * flags.size, flags.start)
    /\ calls = <<>>
    /\ xfreq = 0 /\ yfreq = 0 /\ xphase = 0 /\ yphase = 0
    /\ out = "none"
    /\ reported = {}
    /\ i = 0
    /\ t = 0
    /\ anim = [LoopCount |-> 0, Image |-> <<>>, Delay |-> <<>>]
    /\ ret = "none"
    /\ ts = <<>>

(* paint(x, y, scale, lisa, maxVal) for some point, with the scale the
   program uses for a canvas of this size. *)
PaintCall ==
    /\ pc = "paint"
    /\ Len(calls) < MaxPaints
    /\ \E x \in Coords, y \in Coords :
          LET scale == flags.size - 2
          IN  /\ lisa' = Paint(x, y, scale, lisa, maxVal)
              /\ calls' = Append(calls, <<x, y, scale>>)
    /\ UNCHANGED <<pc, flags, xfreq, yfreq, xphase, yphase, out, reported, i,
                   t, anim, ret, ts, maxVal>>

NextPaint == PaintCall

SpecPaint == InitPaint /\ [][NextPaint]_vars


---------------------------------------------------------------------------
(* Properties *)

(* ceil(a / b) for b > 0 *)
CeilDiv(a, b) == -((-a) \div b)

Cells(canvas) == (DOMAIN canvas) \X (DOMAIN canvas)

(* A configuration within the domain the specification gives RenderConfig:
   size > 0, frame count >= 0, resolution > 0, a positive sweep length. *)
ValidConfig ==
    /\ flags.size > 0
    /\ flags.nframes >= 0
    /\ flags.res > 0
    /\ flags.cycles > 0

(* The frame built last. *)
LastFrame == anim.Image[Len(anim.Image)]

(* C1: saturation law.  Starting from a canvas whose cells are all within
   [0, maxVal], after any sequence of paint calls every cell is within
   [0, maxVal], and no paint call lowers a cell. *)
C1_SaturationLaw ==
    /\ [](\A p \in Cells(lisa) : lisa[p[1]][p[2]] \in 0..maxVal)
    /\ [][\A p \in Cells(lisa) : lisa'[p[1]][p[2]] >= lisa[p[1]][p[2]]]_vars

(* A canvas that started at 0 and on which paint has saturated a cell. *)
C1_Witness ==
    /\ pc = "paint"
    /\ flags.start = 0
    /\ Len(calls) >= 1
    /\ \E p \in Cells(lisa) : lisa[p[1]][p[2]] = maxVal

(* C2: frame count law.  Image and Delay always have the same length, every
   delay is the configured one, inside the loop that length is the number
   of iterations run, and for nframes >= 0 the loop ends after exactly
   nframes iterations with nframes frames and nframes delays. *)
C2_FrameCount ==
    /\ Len(anim.Image) = Len(anim.Delay)
    /\ \A k \in 1..Len(anim.Delay) : anim.Delay[k] = flags.delay
    /\ pc \in {"loop", "sweep"} => Len(anim.Image) = i
    /\ (pc \in {"encode", "done"} /\ flags.nframes >= 0) =>
          /\ i = flags.nframes
          /\ Len(anim.Image) = flags.nframes
          /\ Len(anim.Delay) = flags.nframes

(* The loop has ended after more than one frame. *)
C2_Witness ==
    /\ pc = "encode"
    /\ flags.nframes >= 2
    /\ Len(anim.Image) = flags.nframes
    /\ flags.delay # 0

(* C3: parameter drift law.  The sweep that draws frame i uses each of the
   four parameters at its initial value plus i times its increment. *)
C3_ParameterDrift ==
    pc = "sweep" =>
        /\ xfreq = flags.xfreq + i * flags.xfreqInc
        /\ yfreq = flags.yfreq + i * flags.yfreqInc
        /\ xphase = flags.xphase + i * flags.xphaseInc
        /\ yphase = flags.yphase + i * flags.yphaseInc

(* The sweep of a later frame is sampling, with all four increments set. *)
C3_Witness ==
    /\ pc = "sweep"
    /\ i >= 1
    /\ Len(ts) >= 1
    /\ flags.xfreqInc # 0 /\ flags.yfreqInc # 0
    /\ flags.xphaseInc # 0 /\ flags.yphaseInc # 0

(* C4: splat shape at the origin.  On an all-zero 20x20 canvas with cap 15,
   the one call paint(0, 0, 8) leaves 1 in the nine cells of {7,8,9} x
   {7,8,9} and 0 in every other cell. *)
C4_SplatShape ==
    (/\ pc = "paint"
     /\ flags.size = 10
     /\ flags.start = 0
     /\ maxVal = 15
     /\ calls = << <<0, 0, 8>> >>)
    => \A p \in Cells(lisa) :
          lisa[p[1]][p[2]] =
              IF p[1] \in 7..9 /\ p[2] \in 7..9 THEN 1 ELSE 0

(* C5 as stated, on valid configurations: every cell (x, y) of the grid,
   0 <= x, y < 2*size, has a pixel in the frame built from it, and the
   pixel's palette index is the cell's intensity. *)
C5_EveryCellHasPixel ==
    (pc = "loop" /\ i > 0 /\ ValidConfig) =>
        \A p \in Cells(lisa) :
            /\ p \in DOMAIN LastFrame
            /\ LastFrame[p] = lisa[p[1]][p[2]]

(* C5, amended: every cell (x, y) with y < 2*size-1 has its pixel, whose
   palette index is the cell's intensity; the cells with y = 2*size-1 are
   outside the frame, and they hold 0; the frame's pixels with x = 2*size,
   which no cell corresponds to, have index 0. *)
C5_GridToFrame ==
    (pc = "loop" /\ i > 0) =>
        /\ \A p \in Cells(lisa) :
              IF p[2] < 2 * flags.size - 1
              THEN p \in DOMAIN LastFrame /\ LastFrame[p] = lisa[p[1]][p[2]]
              ELSE p \notin DOMAIN LastFrame /\ lisa[p[1]][p[2]] = 0
        /\ \A p \in DOMAIN LastFrame : p \notin Cells(lisa) => LastFrame[p] = 0

(* A frame has been built from a grid the sweep has painted unevenly. *)
C5_Witness ==
    /\ pc = "loop"
    /\ i > 0
    /\ \E p \in Cells(lisa) : lisa[p[1]][p[2]] > 0 /\ lisa[p[2]][p[1]] = 0

(* C6 as stated, on valid configurations whose file was opened: with
   nframes = 0 the loop runs no iteration, the encoder is handed empty
   sequences, and lissajous returns no error. *)
C6_ReturnsNoError ==
    (flags.nframes = 0 /\ pc = "done" /\ ValidConfig /\ out = "file") =>
        /\ i = 0
        /\ anim.Image = <<>>
        /\ anim.Delay = <<>>
        /\ ret = "nil"

(* C6, amended: with nframes = 0 the loop runs no iteration, the encoder is
   handed empty sequences, and lissajous returns the encoder's error, which
   main reports. *)
C6_EmptyAnimation ==
    (flags.nframes = 0 /\ pc \in {"encode", "done"}) =>
        /\ i = 0
        /\ ts = <<>>
        /\ anim.Image = <<>>
        /\ anim.Delay = <<>>
        /\ pc = "done" => (ret = "error" /\ "encode" \in reported)

(* lissajous has returned from an empty render whose file was opened. *)
C6_Witness ==
    /\ flags.nframes = 0
    /\ pc = "done"
    /\ out = "file"

(* C7: the sink error is fail-fast.  On valid configurations of at least
   one frame, after a failed os.Create the error is reported, no frame is
   built and the encoder is never invoked. *)
C7_FailFast ==
    (out = "nil" /\ ValidConfig /\ flags.nframes >= 1) =>
        /\ "open" \in reported
        /\ anim.Image = <<>>
        /\ ret = "none"

(* C8: sample count.  With cycles >= 0 and res > 0 the sweep samples
   t = 0, res, 2*res, ..., every sample below the limit, and once it has
   stopped it has made exactly ceil(limit / res) calls of paint, the first
   t at or beyond the limit not being sampled. *)
C8_SampleCount ==
    (flags.res > 0 /\ flags.cycles >= 0) =>
        /\ pc = "sweep" =>
              /\ \A k \in 1..Len(ts) :
                    ts[k] = (k - 1) * flags.res /\ ts[k] < Limit
              /\ t = Len(ts) * flags.res
        /\ (pc = "loop" /\ i > 0) =>
              /\ Len(ts) = CeilDiv(Limit, flags.res)
              /\ \A k \in 1..Len(ts) :
                    ts[k] = (k - 1) * flags.res /\ ts[k] < Limit
              /\ t >= Limit

(* A sweep has stopped whose limit is not a multiple of the resolution. *)
C8_Witness ==
    /\ pc = "loop"
    /\ i > 0
    /\ flags.res > 0
    /\ Limit % flags.res # 0
    /\ Len(ts) >= 3

(* C9 as stated, its second half, for a frame count >= 0 and a positive
   sweep length: with a zero or negative resolution no frame is ever
   appended and the encoder is never reached. *)
C9_NonPositiveResNeverEncodes ==
    (flags.res <= 0 /\ flags.nframes >= 0 /\ flags.cycles > 0) =>
        (anim.Image = <<>> /\ pc \notin {"encode", "done"})

(* C9, amended: with res > 0 the render reaches the encoding step and
   returns; with res <= 0, nframes >= 1 and cycles > 0 the sweep of the
   first frame does not end, so that no frame is appended and the encoder
   is not reached. *)
C9_SweepTermination ==
    /\ (pc = "main" /\ flags.res > 0) ~> (pc = "done")
    /\ []((flags.res <= 0 /\ flags.nframes >= 1 /\ flags.cycles > 0) =>
            /\ pc \in {"main", "loop", "sweep"}
            /\ i = 0
            /\ anim.Image = <<>>
            /\ ret = "none"
            /\ pc = "sweep" => t < Limit)

(* A sweep with a negative resolution has been followed for its samples. *)
C9_Witness ==
    /\ pc = "sweep"
    /\ flags.res < 0
    /\ Len(ts) >= MaxSamples

(* The nine taps of the sample at the current t. *)
SampleTaps == Taps(SampleX, SampleY, flags.size - 2)

(* C10: in-bounds invariant of a render.  For size >= 2 every sample has x
   and y within [-1, 1], each of its nine taps lands on a cell whose two
   indices are within [0, 2*(size-2)] and is not skipped, a sample at (0, 0)
   lands on cell (size-2, size-2), and the cells and pixels with an index
   above 2*size-4 hold 0 in the grid and in every frame. *)
C10_InBounds ==
    flags.size >= 2 =>
        /\ (pc = "sweep" /\ t < Limit) =>
              /\ SampleX \in (-One)..One
              /\ SampleY \in (-One)..One
              /\ \A k \in DOMAIN SampleTaps :
                    /\ SampleTaps[k][1] \in 0..(2 * (flags.size - 2))
                    /\ SampleTaps[k][2] \in 0..(2 * (flags.size - 2))
                    /\ ~Skipped(SampleTaps[k], CanvasLen(lisa))
              /\ (SampleX = 0 /\ SampleY = 0) =>
                    \A k \in DOMAIN SampleTaps :
                        SampleTaps[k] = <<flags.size - 2, flags.size - 2>>
        /\ \A p \in Cells(lisa) :
              (p[1] > 2 * flags.size - 4 \/ p[2] > 2 * flags.size - 4)
                  => lisa[p[1]][p[2]] = 0
        /\ \A k \in 1..Len(anim.Image) : \A p \in DOMAIN anim.Image[k] :
              (p[1] > 2 * flags.size - 4 \/ p[2] > 2 * flags.size - 4)
                  => anim.Image[k][p] = 0

(* A frame of a size-3 render in which the sweep reached the last cell it
   can reach on both axes' extremes. *)
C10_Witness ==
    /\ flags.size >= 3
    /\ pc = "loop"
    /\ i > 0
    /\ \E r \in DOMAIN lisa : lisa[r][2 * (flags.size - 2)] > 0
    /\ \E r \in DOMAIN lisa : lisa[r][0] > 0

============================================================================
